---- MODULE Spec2Model ----
(***************************************************************************)
(* A model of the LLM proxy pipeline (LLMProxy: admission check, cache,    *)
(* retry loop with exponential backoff, metrics) and of the provider       *)
(* router (ModelRouter: provider lookup, primary attempt, fallbacks).      *)
(*                                                                         *)
(* Costs, tokens and durations are natural numbers (cost units, tokens,    *)
(* seconds).  The prompt text and the FilterFunction hook are not part of  *)
(* the state: nothing the pipeline decides depends on the prompt.          *)
(***************************************************************************)
EXTENDS Integers, Sequences, FiniteSets, TLC

(***************************************************************************)
(* Bounds of the model.                                                    *)
(***************************************************************************)
MaxRequests == 2
MaxTime == 1
MaxRetryTime == 8
MaxRetryRequests == 1
MaxCost == 1
MaxRetriesBound == 3

Workers == {"w1", "w2"}
RetryWorker == "w1"
\* "" is the absent cache key (Request.CacheKey has omitempty)
Keys == {"", "k1"}
Costs == 0..MaxCost
TokenCounts == {1}
\* "Canceled" stands for the error of a concluded context (context.Canceled or
\* context.DeadlineExceeded): the code reads it only through ctx.Done() and ctx.Err()
CtxStates == {"live", "Canceled"}

\* the error of the attempt with index i: provider errors are opaque, and are
\* told apart by the attempt that returned them
Failure(kind, i) == <<kind, i>>
AttemptError(i) == Failure("provider error", i)

\* the errors of the router: "provider not found", "no fallbacks configured",
\* "all fallbacks failed"
RoutingErrors == {"provider not found", "no fallbacks configured", "all fallbacks failed"}

NoEntry == [present |-> FALSE, Cost |-> 0, TokensUsed |-> 0, Expiration |-> 0]
NoResponse == [TokensUsed |-> 0, Cost |-> 0, CacheHit |-> FALSE, Latency |-> 0]
NoError == <<"nil", 0>>
NoResult == [kind |-> "none", err |-> "", cause |-> NoError, resp |-> NoResponse]

VARIABLES
    config,      \* ProxyConfig: CacheEnabled, RetryConfig, CostLimit, and the cache TTL
    metrics,     \* ProxyMetrics
    cache,       \* RequestCache.entries
    now,         \* the clock (time.Now)
    wk,          \* each worker's call of ProcessRequest: its position (pc), its
                 \* request (key), its context (ctx), its locals (attempt,
                 \* lastErr, response), the select of its backoff wait (sel,
                 \* timerAt), what it returned (result), and its history: its
                 \* makeRequest calls (calls), its backoff waits (waits), what the
                 \* cache held for its key at the lookup (seen), whether its
                 \* context concluded while it was blocked in a wait (woken)
    nreq,        \* history: requests submitted
    horizon,     \* how far the clock of this run goes
    budget,      \* how many requests this run submits
    returned,    \* history: sum of the Cost of the responses returned
    succeeded,   \* history: calls of ProcessRequest that returned a response
    failures     \* the errors makeRequest can fail with in this run

pvars == <<config, metrics, cache, now, wk, nreq, horizon, budget, returned, succeeded, failures>>

VARIABLES
    providers,   \* ModelRouter.providers
    fallbacks,   \* ModelRouter.fallbacks
    available,   \* what IsAvailable() of each provider client returns
    regw,        \* the RegisterProvider call that holds the write lock, if any
    rt           \* the call of RouteRequest: its position (pc), its request (req),
                 \* its context (ctx), its locals (provider, chain, idx), what it
                 \* returned (result), and its history: the primary attempt and the
                 \* candidates gone through, with the outcome of each (trail), the
                 \* IsAvailable calls (availChecks), whether it looked up the
                 \* fallback list (fbLooked)

rvars == <<providers, fallbacks, available, regw, rt>>

vars == <<pvars, rvars>>

(***************************************************************************)
(* Pure parts.                                                             *)
(***************************************************************************)
RECURSIVE Pow2(_)
Pow2(n) == IF n = 0 THEN 1 ELSE 2 * Pow2(n - 1)

\* mutant of Backoff: the delay grows linearly
BackoffLinear(base, i) == base * (i + 1)

\* backoff := BackoffBase * time.Duration(1<<attempt)
Backoff(base, i) == base * Pow2(i)

\* mutant of checkRateLimits: > for >=
checkRateLimitsStrict(m, c) ==
    IF m.EstimatedCost > c.CostLimit THEN "AdmissionDenied" ELSE ""

\* checkRateLimits: the error, or "" for nil
checkRateLimits(m, c) ==
    IF m.EstimatedCost >= c.CostLimit THEN "AdmissionDenied" ELSE ""

\* mutant of recordMetrics: EstimatedCost = cost for EstimatedCost += cost
recordMetricsAssign(m, latency, tokens, cost, cacheHit) ==
    [TotalRequests |-> m.TotalRequests + 1,
     CacheHits     |-> IF cacheHit THEN m.CacheHits + 1 ELSE m.CacheHits,
     Latency       |-> m.Latency + latency,
     TokensUsed    |-> m.TokensUsed + tokens,
     EstimatedCost |-> cost]

\* mutant of recordMetrics: the cost of a cache hit is not added
recordMetricsFreeHit(m, latency, tokens, cost, cacheHit) ==
    [TotalRequests |-> m.TotalRequests + 1,
     CacheHits     |-> IF cacheHit THEN m.CacheHits + 1 ELSE m.CacheHits,
     Latency       |-> m.Latency + latency,
     TokensUsed    |-> m.TokensUsed + tokens,
     EstimatedCost |-> IF cacheHit THEN m.EstimatedCost ELSE m.EstimatedCost + cost]

\* mutant of recordMetrics: a cache hit is counted as a hit but not as a request
recordMetricsHitOnly(m, latency, tokens, cost, cacheHit) ==
    [TotalRequests |-> IF cacheHit THEN m.TotalRequests ELSE m.TotalRequests + 1,
     CacheHits     |-> IF cacheHit THEN m.CacheHits + 1 ELSE m.CacheHits,
     Latency       |-> m.Latency + latency,
     TokensUsed    |-> m.TokensUsed + tokens,
     EstimatedCost |-> m.EstimatedCost + cost]

\* mutant of recordMetrics: a cache hit takes its cost off the total
recordMetricsRefund(m, latency, tokens, cost, cacheHit) ==
    [TotalRequests |-> m.TotalRequests + 1,
     CacheHits     |-> IF cacheHit THEN m.CacheHits + 1 ELSE m.CacheHits,
     Latency       |-> m.Latency + latency,
     TokensUsed    |-> m.TokensUsed + tokens,
     EstimatedCost |-> IF cacheHit THEN m.EstimatedCost - cost ELSE m.EstimatedCost + cost]

\* recordMetrics
recordMetrics(m, latency, tokens, cost, cacheHit) ==
    [TotalRequests |-> m.TotalRequests + 1,
     CacheHits     |-> IF cacheHit THEN m.CacheHits + 1 ELSE m.CacheHits,
     Latency       |-> m.Latency + latency,
     TokensUsed    |-> m.TokensUsed + tokens,
     EstimatedCost |-> m.EstimatedCost + cost]

\* checkCache: found only if the key is non-empty, an entry exists and its
\* expiration is in the future
checkCacheHit(c, key, t) ==
    /\ key # ""
    /\ c[key].present
    /\ c[key].Expiration > t

\* history: what the cache holds for a key at time t
Held(c, key, t) ==
    IF key = "" THEN "no key"
    ELSE IF ~c[key].present THEN "absent"
    ELSE IF c[key].Expiration > t THEN "live"
    ELSE "expired"

\* cacheResponse: unconditionally overwrites the entry of the key
cacheResponse(c, key, resp, t, ttl) ==
    [c EXCEPT ![key] = [present |-> TRUE, Cost |-> resp.Cost,
                        TokensUsed |-> resp.TokensUsed, Expiration |-> t + ttl]]

Providers == {"openai", "anthropic"}
Clients == {"c1"}
Models == {"m1", "m2", "m3"}
RequestModels == {"m1", "m2"}
\* the fallback lists SetFallbacks is called with: empty, one candidate, the
\* model itself, two candidates, and one candidate twice
Chains == {<<>>, <<"m2">>, <<"m1">>, <<"m2", "m3">>, <<"m2", "m2">>}

NoClient == "none"
NoChain == <<"none">>
NoWrite == [provider |-> "none", client |-> "none"]
NoRouteResult == [kind |-> "none", err |-> "", model |-> ""]

IdleRoute ==
    [pc |-> "idle", req |-> [Provider |-> "openai", ModelName |-> "m1"],
     ctx |-> "live", provider |-> NoClient, chain |-> NoChain, idx |-> 0,
     result |-> NoRouteResult, trail |-> <<>>, availChecks |-> 0, fbLooked |-> FALSE]

IdleWorker ==
    [pc |-> "idle", key |-> "", ctx |-> "live", attempt |-> 0,
     lastErr |-> NoError, sel |-> "none", timerAt |-> 0, response |-> NoResponse,
     result |-> NoResult, calls |-> <<>>, waits |-> <<>>, seen |-> "none",
     woken |-> FALSE]

\* the configurations of the pipeline runs: cache on or off, two attempts with no
\* backoff, a cost ceiling that one response can reach, entries that live a second
Configs ==
    [CacheEnabled : BOOLEAN, MaxRetries : {2}, BackoffBase : {0},
     CostLimit : {1}, TTL : {1}]

\* the configurations of the retry runs: no cache, every attempt budget, with and
\* without backoff
RetryConfigs ==
    [CacheEnabled : {FALSE}, MaxRetries : 0..MaxRetriesBound, BackoffBase : 0..1,
     CostLimit : {1}, TTL : {1}]

\* NewLLMProxy and NewModelRouter, and the bounds of the run
Start(cfgs, h, n, fs) ==
    /\ config \in cfgs
    /\ failures = fs
    /\ horizon = h
    /\ budget = n
    /\ metrics = [TotalRequests |-> 0, CacheHits |-> 0, Latency |-> 0,
                  TokensUsed |-> 0, EstimatedCost |-> 0]
    /\ cache = [k \in Keys |-> NoEntry]
    /\ now = 0
    /\ wk = [w \in Workers |-> IdleWorker]
    /\ nreq = 0
    /\ returned = 0
    /\ succeeded = 0
    /\ providers = [p \in Providers |-> NoClient]
    /\ fallbacks = [m \in Models |-> NoChain]
    /\ available = [c \in Clients |-> TRUE]
    /\ regw = NoWrite
    /\ rt = IdleRoute

PInit == Start(Configs, MaxTime, MaxRequests, {"provider error"})

RetryInit == Start(RetryConfigs, MaxRetryTime, MaxRetryRequests, {"provider error"})

\* the pipeline at rest, for the runs of the router
RouterInit == Start({c \in RetryConfigs : c.MaxRetries = 0 /\ c.BackoffBase = 0}, 0, 0,
          {"provider error"})

OkResult(resp) == [kind |-> "ok", err |-> "", cause |-> NoError, resp |-> resp]
ErrResult(e, cause) == [kind |-> "err", err |-> e, cause |-> cause, resp |-> NoResponse]

\* return of ProcessRequest to its caller: the locals of the call are gone
Finish(ws, w, res) ==
    /\ wk' = [ws EXCEPT ![w] = [IdleWorker EXCEPT !.pc = "done", !.key = ws[w].key,
                                                  !.ctx = ws[w].ctx,
                                                  !.result = res, !.calls = ws[w].calls,
                                                  !.waits = ws[w].waits,
                                                  !.seen = ws[w].seen,
                                                  !.woken = ws[w].woken]]
    /\ returned' = returned + (IF res.kind = "ok" THEN res.resp.Cost ELSE 0)
    /\ succeeded' = succeeded + (IF res.kind = "ok" THEN 1 ELSE 0)

\* mutant of EnterLoop: attempt <= MaxRetries for attempt < MaxRetries
EnterLoopOffByOne(ws, w, a) ==
    IF a <= config.MaxRetries
    THEN /\ wk' = [ws EXCEPT ![w].pc = "attempt", ![w].attempt = a, ![w].sel = "none"]
         /\ UNCHANGED <<returned, succeeded>>
    ELSE Finish(ws, w, ErrResult("RetriesExhausted", ws[w].lastErr))

\* mutant of EnterLoop: the head of the loop returns the context's error when the
\* context has concluded
EnterLoopChecksCtx(ws, w, a) ==
    IF ws[w].ctx # "live"
    THEN Finish(ws, w, ErrResult(ws[w].ctx, NoError))
    ELSE IF a < config.MaxRetries
         THEN /\ wk' = [ws EXCEPT ![w].pc = "attempt", ![w].attempt = a, ![w].sel = "none"]
              /\ UNCHANGED <<returned, succeeded>>
         ELSE Finish(ws, w, ErrResult("RetriesExhausted", ws[w].lastErr))

\* the head of the loop of makeRequestWithRetries with loop variable a: the
\* next attempt, or the return after the loop
EnterLoop(ws, w, a) ==
    IF a < config.MaxRetries
    THEN /\ wk' = [ws EXCEPT ![w].pc = "attempt", ![w].attempt = a, ![w].sel = "none"]
         /\ UNCHANGED <<returned, succeeded>>
    ELSE Finish(ws, w, ErrResult("RetriesExhausted", ws[w].lastErr))

\* time.Since(start): start := time.Now() was read at some moment of the run
\* so far, so the call has lasted anything from 0 to the whole of it
Since(w) == 0..now

\* a caller calls ProcessRequest(ctx, req)
Submit(w) ==
    /\ wk[w].pc \in {"idle", "done"}
    /\ nreq < budget
    /\ \E k \in Keys, c \in CtxStates :
          wk' = [wk EXCEPT ![w] = [IdleWorker EXCEPT !.pc = "admit", !.key = k,
                                                     !.ctx = c]]
    /\ nreq' = nreq + 1
    /\ UNCHANGED <<config, failures, metrics, cache, now, horizon, budget, returned, succeeded>>
    /\ UNCHANGED rvars

\* if err := p.checkRateLimits(); err != nil { return nil, err }
CheckAdmission(w) ==
    /\ wk[w].pc = "admit"
    /\ LET e == checkRateLimits(metrics, config) IN
       IF e # ""
       THEN Finish(wk, w, ErrResult(e, NoError))
       ELSE IF config.CacheEnabled
            THEN /\ wk' = [wk EXCEPT ![w].pc = "cache"]
                 /\ UNCHANGED <<returned, succeeded>>
            ELSE EnterLoop(wk, w, 0)
    /\ UNCHANGED <<config, failures, metrics, cache, now, nreq, horizon, budget>>
    /\ UNCHANGED rvars

\* mutant of CheckCache: the hit flag is ignored, a stored entry is served whatever
\* its expiration
CheckCacheAnyEntry(w) ==
    /\ wk[w].pc = "cache"
    /\ IF wk[w].key # "" /\ cache[wk[w].key].present
       THEN /\ wk' = [wk EXCEPT ![w].pc = "hit",
                                ![w].seen = Held(cache, wk[w].key, now),
                                ![w].response =
                                    [TokensUsed |-> cache[wk[w].key].TokensUsed,
                                     Cost |-> cache[wk[w].key].Cost,
                                     CacheHit |-> TRUE, Latency |-> 0]]
            /\ UNCHANGED <<returned, succeeded>>
       ELSE EnterLoop([wk EXCEPT ![w].seen = Held(cache, wk[w].key, now)], w, 0)
    /\ UNCHANGED <<config, failures, metrics, cache, now, nreq, horizon, budget>>
    /\ UNCHANGED rvars

\* if cached, hit := p.checkCache(req.CacheKey); hit { ... }
CheckCache(w) ==
    /\ wk[w].pc = "cache"
    /\ IF checkCacheHit(cache, wk[w].key, now)
       THEN /\ wk' = [wk EXCEPT ![w].pc = "hit",
                                ![w].seen = Held(cache, wk[w].key, now),
                                ![w].response =
                                    [TokensUsed |-> cache[wk[w].key].TokensUsed,
                                     Cost |-> cache[wk[w].key].Cost,
                                     CacheHit |-> TRUE, Latency |-> 0]]
            /\ UNCHANGED <<returned, succeeded>>
       ELSE EnterLoop([wk EXCEPT ![w].seen = Held(cache, wk[w].key, now)], w, 0)
    /\ UNCHANGED <<config, failures, metrics, cache, now, nreq, horizon, budget>>
    /\ UNCHANGED rvars

\* mutant of RecordHit: the latency recorded is time.Since(start), as on the
\* provider path
RecordHitTimed(w) ==
    /\ wk[w].pc = "hit"
    /\ \E d \in Since(w) :
          /\ metrics' = recordMetrics(metrics, d, wk[w].response.TokensUsed,
                                      wk[w].response.Cost, TRUE)
          /\ Finish(wk, w, OkResult([wk[w].response EXCEPT !.Latency = d]))
    /\ UNCHANGED <<config, failures, cache, now, nreq, horizon, budget>>
    /\ UNCHANGED rvars

\* p.recordMetrics(0, cached.TokensUsed, cached.Cost, true); return &ProxyResponse{...}
RecordHit(w) ==
    /\ wk[w].pc = "hit"
    /\ metrics' = recordMetrics(metrics, 0, wk[w].response.TokensUsed,
                                wk[w].response.Cost, TRUE)
    /\ \E d \in Since(w) :
          Finish(wk, w, OkResult([wk[w].response EXCEPT !.Latency = d]))
    /\ UNCHANGED <<config, failures, cache, now, nreq, horizon, budget>>
    /\ UNCHANGED rvars

\* the cases of the select that are ready as the wait begins
ReadyCases(w, backoff) ==
    (IF wk[w].ctx # "live" THEN {"ctx"} ELSE {})
        \cup (IF backoff = 0 THEN {"timer"} ELSE {})

\* response, err := p.makeRequest(ctx, req), and what the loop body does with it
Attempt(w) ==
    /\ wk[w].pc = "attempt"
    /\ \/ \E c \in Costs, t \in TokenCounts :
             wk' = [wk EXCEPT ![w].pc = "record",
                              ![w].response = [TokensUsed |-> t, Cost |-> c,
                                               CacheHit |-> FALSE, Latency |-> 0],
                              ![w].calls = Append(@, NoError)]
       \/ \E k \in failures :
          LET backoff == Backoff(config.BackoffBase, wk[w].attempt)
              e == Failure(k, wk[w].attempt)
          IN  \E s \in (IF ReadyCases(w, backoff) = {} THEN {"none"}
                        ELSE ReadyCases(w, backoff)) :
                 wk' = [wk EXCEPT ![w].pc = "wait",
                                  ![w].lastErr = e,
                                  ![w].calls = Append(@, e),
                                  ![w].waits = Append(@, backoff),
                                  ![w].timerAt = now + backoff,
                                  ![w].sel = s]
    /\ UNCHANGED <<config, failures, metrics, cache, now, nreq, horizon, budget, returned, succeeded>>
    /\ UNCHANGED rvars

\* mutant of WaitDone: the wait is a plain sleep, the context is not looked at
WaitDoneSleeps(w) ==
    /\ wk[w].pc = "wait"
    /\ wk[w].sel # "none"
    /\ EnterLoop(wk, w, wk[w].attempt + 1)
    /\ UNCHANGED <<config, failures, metrics, cache, now, nreq, horizon, budget>>
    /\ UNCHANGED rvars

\* select { case <-ctx.Done(): return nil, ctx.Err(); case <-time.After(backoff): continue }
WaitDone(w) ==
    /\ wk[w].pc = "wait"
    /\ wk[w].sel # "none"
    /\ IF wk[w].sel = "ctx"
       THEN Finish(wk, w, ErrResult(wk[w].ctx, NoError))
       ELSE EnterLoop(wk, w, wk[w].attempt + 1)
    /\ UNCHANGED <<config, failures, metrics, cache, now, nreq, horizon, budget>>
    /\ UNCHANGED rvars

\* p.recordMetrics(time.Since(start), response.TokensUsed, response.Cost, false)
RecordMetrics(w) ==
    /\ wk[w].pc = "record"
    /\ \E d \in Since(w) :
          metrics' = recordMetrics(metrics, d, wk[w].response.TokensUsed,
                                   wk[w].response.Cost, FALSE)
    /\ IF config.CacheEnabled
       THEN /\ wk' = [wk EXCEPT ![w].pc = "store"]
            /\ UNCHANGED <<returned, succeeded>>
       ELSE Finish(wk, w, OkResult(wk[w].response))
    /\ UNCHANGED <<config, failures, cache, now, nreq, horizon, budget>>
    /\ UNCHANGED rvars

\* mutant of StoreResponse: the response of a request without a key is not stored
StoreResponseKeyed(w) ==
    /\ wk[w].pc = "store"
    /\ cache' = IF wk[w].key = "" THEN cache
                ELSE cacheResponse(cache, wk[w].key, wk[w].response, now, config.TTL)
    /\ Finish(wk, w, OkResult(wk[w].response))
    /\ UNCHANGED <<config, failures, metrics, now, nreq, horizon, budget>>
    /\ UNCHANGED rvars

\* p.cacheResponse(req.CacheKey, response); return response, nil
StoreResponse(w) ==
    /\ wk[w].pc = "store"
    /\ cache' = cacheResponse(cache, wk[w].key, wk[w].response, now, config.TTL)
    /\ Finish(wk, w, OkResult(wk[w].response))
    /\ UNCHANGED <<config, failures, metrics, now, nreq, horizon, budget>>
    /\ UNCHANGED rvars

\* the context of the request is cancelled, or its deadline passes
Cancel(w) ==
    /\ wk[w].pc \notin {"idle", "done"}
    /\ wk[w].ctx = "live"
    /\ \E c \in CtxStates \ {"live"} :
          wk' = [wk EXCEPT ![w].ctx = c,
                           ![w].sel = IF wk[w].pc = "wait" /\ @ = "none"
                                      THEN "ctx" ELSE @,
                           ![w].woken = wk[w].pc = "wait" /\ wk[w].sel = "none"]
    /\ UNCHANGED <<config, failures, metrics, cache, now, nreq, horizon, budget, returned, succeeded>>
    /\ UNCHANGED rvars

\* a second passes; the timers that are due fire
Tick ==
    /\ now < horizon
    /\ now' = now + 1
    /\ wk' = [w \in Workers |->
                 IF wk[w].pc = "wait" /\ wk[w].sel = "none" /\ wk[w].timerAt <= now + 1
                 THEN [wk[w] EXCEPT !.sel = "timer"] ELSE wk[w]]
    /\ UNCHANGED <<config, failures, metrics, cache, nreq, horizon, budget, returned, succeeded>>
    /\ UNCHANGED rvars

WorkerStep(w) ==
    \/ Submit(w)
    \/ CheckAdmission(w)
    \/ CheckCache(w)
    \/ RecordHit(w)
    \/ Attempt(w)
    \/ WaitDone(w)
    \/ RecordMetrics(w)
    \/ StoreResponse(w)
    \/ Cancel(w)

PNext == (\E w \in Workers : WorkerStep(w)) \/ Tick

(***************************************************************************)
(* The router.                                                             *)
(***************************************************************************)
RouteOk(model) == [kind |-> "ok", err |-> "", model |-> model]
RouteErr(e) == [kind |-> "err", err |-> e, model |-> ""]

\* return of RouteRequest
RouteReturn(r, res) ==
    [r EXCEPT !.pc = "done", !.result = res, !.provider = NoClient, !.idx = 0]

\* RegisterProvider: r.mutex.Lock()
RegisterBegin ==
    /\ regw = NoWrite
    /\ \E p \in Providers, c \in Clients : regw' = [provider |-> p, client |-> c]
    /\ UNCHANGED <<providers, fallbacks, available, rt>>
    /\ UNCHANGED pvars

\* RegisterProvider: r.providers[provider] = client; r.mutex.Unlock()
RegisterEnd ==
    /\ regw # NoWrite
    /\ providers' = [providers EXCEPT ![regw.provider] = regw.client]
    /\ regw' = NoWrite
    /\ UNCHANGED <<fallbacks, available, rt>>
    /\ UNCHANGED pvars

\* SetFallbacks, under the write lock
SetFallbacks ==
    /\ regw = NoWrite
    /\ \E m \in RequestModels, ch \in Chains : fallbacks' = [fallbacks EXCEPT ![m] = ch]
    /\ UNCHANGED <<providers, available, regw, rt>>
    /\ UNCHANGED pvars

\* a provider becomes available or unavailable
SetAvailable ==
    /\ \E c \in Clients : available' = [available EXCEPT ![c] = ~@]
    /\ UNCHANGED <<providers, fallbacks, regw, rt>>
    /\ UNCHANGED pvars

\* a caller calls RouteRequest(ctx, req)
RouteBegin ==
    /\ rt.pc \in {"idle", "done"}
    /\ \E p \in Providers, m \in RequestModels, c \in CtxStates :
          rt' = [IdleRoute EXCEPT !.pc = "lookup",
                                  !.req = [Provider |-> p, ModelName |-> m],
                                  !.ctx = c]
    /\ UNCHANGED <<providers, fallbacks, available, regw>>
    /\ UNCHANGED pvars

\* mutant of RouteLookup: an unknown provider goes on to the fallbacks
RouteLookupFallsBack ==
    /\ rt.pc = "lookup"
    /\ regw = NoWrite
    /\ IF providers[rt.req.Provider] = NoClient
       THEN rt' = [rt EXCEPT !.pc = "fblookup"]
       ELSE rt' = [rt EXCEPT !.pc = "primary", !.provider = providers[rt.req.Provider]]
    /\ UNCHANGED <<providers, fallbacks, available, regw>>
    /\ UNCHANGED pvars

\* provider, exists := r.providers[req.Provider], under the read lock;
\* if !exists { return ModelResponse{}, errors.New("provider not found") }
RouteLookup ==
    /\ rt.pc = "lookup"
    /\ regw = NoWrite
    /\ IF providers[rt.req.Provider] = NoClient
       THEN rt' = RouteReturn(rt, RouteErr("provider not found"))
       ELSE rt' = [rt EXCEPT !.pc = "primary", !.provider = providers[rt.req.Provider]]
    /\ UNCHANGED <<providers, fallbacks, available, regw>>
    /\ UNCHANGED pvars

\* mutant of Outcomes: GenerateText is called whatever IsAvailable() returns
OutcomesUnchecked(client) ==
    IF client = NoClient THEN {"absent"} ELSE {"ok", "fail"}

\* one attempt with a provider client for a model: IsAvailable(), then
\* GenerateText if it is; the outcomes the attempt can have
Outcomes(client) ==
    IF client = NoClient THEN {"absent"}
    ELSE IF available[client] THEN {"ok", "fail"}
    ELSE {"unavailable"}

Tried(r, stage, model, client, outcome) ==
    [r EXCEPT !.trail = Append(@, [stage |-> stage, model |-> model, outcome |-> outcome]),
              !.availChecks = IF client = NoClient THEN @ ELSE @ + 1]

\* if provider.IsAvailable() { resp, err := provider.GenerateText(ctx, req); ... }
\* return r.tryFallbacks(ctx, req)
RoutePrimary ==
    /\ rt.pc = "primary"
    /\ \E o \in Outcomes(rt.provider) :
          LET r == Tried(rt, "primary", rt.req.ModelName, rt.provider, o) IN
          IF o = "ok"
          THEN rt' = RouteReturn(r, RouteOk(rt.req.ModelName))
          ELSE rt' = [r EXCEPT !.pc = "fblookup"]
    /\ UNCHANGED <<providers, fallbacks, available, regw>>
    /\ UNCHANGED pvars

\* mutant of FallbackLoop: at the end of the list the call goes on with the
\* fallback list of the last candidate
FallbackLoopRecursive(r, i) ==
    IF i <= Len(r.chain)
    THEN [r EXCEPT !.pc = "fallback", !.idx = i]
    ELSE IF r.chain # <<>> /\ fallbacks[r.chain[Len(r.chain)]] \notin {NoChain, <<>>}
         THEN [r EXCEPT !.pc = "fallback", !.idx = 1,
                        !.chain = fallbacks[r.chain[Len(r.chain)]]]
         ELSE RouteReturn(r, RouteErr("all fallbacks failed"))

\* the head of the loop of tryFallbacks at index i (1-based): the next
\* candidate, or the return after the loop
FallbackLoop(r, i) ==
    IF i <= Len(r.chain)
    THEN [r EXCEPT !.pc = "fallback", !.idx = i]
    ELSE RouteReturn(r, RouteErr("all fallbacks failed"))

\* fallbacks, exists := r.fallbacks[req.ModelName], under the read lock;
\* if !exists { return ModelResponse{}, errors.New("no fallbacks configured") }
RouteFallbackLookup ==
    /\ rt.pc = "fblookup"
    /\ regw = NoWrite
    /\ LET r == [rt EXCEPT !.fbLooked = TRUE] IN
       IF fallbacks[rt.req.ModelName] = NoChain
       THEN rt' = RouteReturn(r, RouteErr("no fallbacks configured"))
       ELSE rt' = FallbackLoop([r EXCEPT !.chain = fallbacks[rt.req.ModelName]], 1)
    /\ UNCHANGED <<providers, fallbacks, available, regw>>
    /\ UNCHANGED pvars

\* mutant of Candidate: the list is gone through from its end
CandidateReversed(chain, i) == chain[Len(chain) + 1 - i]

\* for _, fallbackModel := range fallbacks: the candidate at index i
Candidate(chain, i) == chain[i]

\* provider, exists := r.providers[req.Provider], read without the lock: while a
\* RegisterProvider call is writing the map the read races with it, and yields the
\* old value, the value being written, no value, or the runtime's fatal error
\* "concurrent map read and map write"
UnlockedRead(p) ==
    IF regw = NoWrite THEN {providers[p]}
    ELSE {providers[p], regw.client, NoClient, "fatal"}

\* the body of the loop of tryFallbacks for one candidate
RouteFallback ==
    /\ rt.pc = "fallback"
    /\ \E client \in UnlockedRead(rt.req.Provider) :
          IF client = "fatal"
          THEN rt' = RouteReturn(rt, [kind |-> "fatal", err |-> "", model |-> ""])
          ELSE \E o \in Outcomes(client) :
                  LET model == Candidate(rt.chain, rt.idx)
                      r == Tried(rt, "fallback", model, client, o)
                  IN  IF o = "ok"
                      THEN rt' = RouteReturn(r, RouteOk(model))
                      ELSE rt' = FallbackLoop(r, rt.idx + 1)
    /\ UNCHANGED <<providers, fallbacks, available, regw>>
    /\ UNCHANGED pvars

\* the context of the routed request is cancelled, or its deadline passes
RouteCancel ==
    /\ rt.pc \notin {"idle", "done"}
    /\ rt.ctx = "live"
    /\ rt' = [rt EXCEPT !.ctx = "Canceled"]
    /\ UNCHANGED <<providers, fallbacks, available, regw>>
    /\ UNCHANGED pvars

RNext ==
    \/ RegisterBegin
    \/ RegisterEnd
    \/ SetFallbacks
    \/ SetAvailable
    \/ RouteBegin
    \/ RouteLookup
    \/ RoutePrimary
    \/ RouteFallbackLookup
    \/ RouteFallback
    \/ RouteCancel

(***************************************************************************)
(* The specifications.                                                     *)
(***************************************************************************)
\* the pipeline: the workers run ProcessRequest concurrently
Spec == PInit /\ [][PNext]_vars

\* the retry loop alone: one caller, the cache disabled, over every retry configuration
RetryNext ==
    \/ Submit(RetryWorker)
    \/ CheckAdmission(RetryWorker)
    \/ Attempt(RetryWorker)
    \/ WaitDone(RetryWorker)
    \/ RecordMetrics(RetryWorker)
    \/ Cancel(RetryWorker)
    \/ Tick

SpecRetry == RetryInit /\ [][RetryNext]_vars

\* the retry loop with an attempt function that is the router's RouteRequest, and
\* so can fail with a routing error as well as with a provider error
ErrorsInit ==
    Start({c \in RetryConfigs : c.MaxRetries = 2}, MaxRetryTime, MaxRetryRequests,
          RoutingErrors \cup {"provider error"})

SpecErrors == ErrorsInit /\ [][RetryNext]_vars

\* the router: one RouteRequest at a time, with registrations going on
SpecRouter == RouterInit /\ [][RNext]_vars

(***************************************************************************)
(* The claims.                                                             *)
(***************************************************************************)
\* worker w takes the step that leaves the position pos of ProcessRequest
Leaves(w, pos) == wk[w].pc = pos /\ wk'[w].pc # pos

Denied(r) == r.pc = "done" /\ r.result = ErrResult("AdmissionDenied", NoError)

\* C1: when the admission check of a request finds the cumulative cost at or above
\* the cost ceiling, the request returns the admission-denied error at once: no
\* provider attempt and no wait was made for it, and the metrics and the cache are
\* left as they were.
C1_DeniedReturnsImmediately ==
    [][\A w \in Workers :
          (Leaves(w, "admit") /\ metrics.EstimatedCost >= config.CostLimit)
              => /\ Denied(wk'[w])
                 /\ wk'[w].calls = <<>>
                 /\ wk'[w].waits = <<>>
                 /\ wk'[w].seen = "none"
                 /\ metrics' = metrics
                 /\ cache' = cache
                 /\ returned' = returned]_vars

\* a request was denied while another request's response had been recorded
C1_Witness ==
    \E w \in Workers : Denied(wk[w]) /\ wk[w].calls = <<>> /\ metrics.TotalRequests = 1

\* C2: once the cumulative cost has reached the ceiling it stays at or above it, and
\* from then on no request passes the admission check: a request that has not yet
\* been admitted never gets to the cache or to a provider, and ends denied.
C2_CeilingStaysClosed ==
    [][metrics.EstimatedCost >= config.CostLimit
          => /\ metrics'.EstimatedCost >= config.CostLimit
             /\ \A w \in Workers :
                   wk[w].pc \in {"idle", "admit"}
                       => /\ wk'[w].pc \in {"idle", "admit", "done"}
                          /\ wk'[w].pc = "done" => Denied(wk'[w])]_vars

\* the ceiling was reached by the response of one worker, and the request the other
\* worker made after that was denied
C2_Witness ==
    /\ metrics.EstimatedCost >= config.CostLimit
    /\ \E w, v \in Workers :
          /\ Denied(wk[w])
          /\ wk[v].pc = "done" /\ wk[v].result.kind = "ok"
          /\ wk[v].result.resp.Cost >= config.CostLimit

Quiescent == \A w \in Workers : wk[w].pc \in {"idle", "done"}

\* C3: once every call has returned, the cumulative cost of the metrics equals the
\* sum of the costs of the responses returned, on the provider path and on the
\* cache-hit path, in every interleaving of the workers.
C3_CostIsSumOfResponses ==
    Quiescent => metrics.EstimatedCost = returned

\* two calls have returned, one from a provider and one from the cache, each with
\* a cost
C3_Witness ==
    /\ Quiescent
    /\ \E w, v \in Workers :
          /\ wk[w].result.kind = "ok" /\ ~wk[w].result.resp.CacheHit
          /\ wk[v].result.kind = "ok" /\ wk[v].result.resp.CacheHit
          /\ wk[v].result.resp.Cost > 0
    /\ returned = 2

\* C4: with caching enabled, a request whose cache key has an unexpired entry when
\* the cache is consulted never reaches the provider layer (no attempt, no wait): it
\* records one outcome with latency zero and the cache-hit flag, and returns a
\* response with cache_hit = true.
C4_LiveEntryIsServedFromCache ==
    [][\A w \in Workers :
          /\ (Leaves(w, "cache") /\ Held(cache, wk[w].key, now) = "live")
                 => wk'[w].seen = "live"
          /\ wk'[w].seen = "live"
                 => /\ config.CacheEnabled
                    /\ wk'[w].pc \in {"hit", "done"}
                    /\ wk'[w].calls = <<>> /\ wk'[w].waits = <<>>
                    /\ wk'[w].pc = "done"
                          => /\ wk'[w].result.kind = "ok"
                             /\ wk'[w].result.resp.CacheHit
          /\ (wk[w].seen = "live" /\ wk[w].pc # "done" /\ wk'[w].pc = "done")
                 => /\ metrics'.TotalRequests = metrics.TotalRequests + 1
                    /\ metrics'.CacheHits = metrics.CacheHits + 1
                    /\ metrics'.Latency = metrics.Latency]_vars

\* a request found a live entry after time had passed, and returned it
C4_Witness ==
    \E w \in Workers :
        /\ wk[w].seen = "live" /\ wk[w].pc = "done"
        /\ wk[w].result.resp.CacheHit
        /\ metrics.CacheHits = 1 /\ metrics.TotalRequests = 2

\* C5: an entry whose expiration has passed is treated as absent: the request goes
\* to the provider through the retry loop as on a miss, a response it returns has
\* cache_hit = false, and the expired entry stays stored until a write to the same
\* key replaces it.
C5_ExpiredEntryIsAMiss ==
    [][/\ \A w \in Workers :
             /\ (Leaves(w, "cache") /\ Held(cache, wk[w].key, now) = "expired")
                    => /\ wk'[w].seen = "expired"
                       /\ wk'[w].pc = "attempt" /\ wk'[w].attempt = 0
             /\ wk'[w].seen = "expired"
                    => /\ wk'[w].pc \in {"attempt", "wait", "record", "store", "done"}
                       /\ (wk'[w].pc = "done" /\ wk'[w].result.kind = "ok")
                             => /\ ~wk'[w].result.resp.CacheHit
                                /\ wk'[w].calls # <<>>
       /\ \A k \in Keys :
             (cache[k].present /\ cache'[k] # cache[k])
                 => /\ cache'[k].present
                    /\ \E w \in Workers : Leaves(w, "store") /\ wk[w].key = k]_vars

\* a request found an expired entry, went to the provider, and replaced the entry
C5_Witness ==
    \E w \in Workers :
        /\ wk[w].seen = "expired" /\ wk[w].pc = "done"
        /\ wk[w].result.kind = "ok" /\ ~wk[w].result.resp.CacheHit
        /\ cache[wk[w].key].Expiration > now

AllFailed(calls) == \A i \in 1..Len(calls) : calls[i] # NoError

\* the error of the last attempt of a loop that made n attempts
LastError(calls, n) == IF n = 0 THEN NoError ELSE calls[n]

\* C6: the retry loop with configured maximum N makes at most N attempts; a
\* successful attempt is the last one, and is followed by no attempt and no wait;
\* when all N attempts have failed and the context was never cancelled, the loop
\* returns the retries-exhausted error wrapping the error of the N-th attempt.
C6_AtMostNAttempts ==
    \A w \in Workers :
        LET r == wk[w]
            N == config.MaxRetries
        IN  /\ Len(r.calls) <= N
            /\ \A i \in 1..(Len(r.calls) - 1) : r.calls[i] # NoError
            /\ Len(r.waits) = Cardinality({i \in 1..Len(r.calls) : r.calls[i] # NoError})
            /\ (r.pc = "done" /\ r.result.kind = "ok" /\ ~r.result.resp.CacheHit)
                  => r.calls # <<>> /\ r.calls[Len(r.calls)] = NoError
            /\ (r.pc = "done" /\ r.result.err = "RetriesExhausted")
                  => /\ Len(r.calls) = N /\ AllFailed(r.calls)
                     /\ r.result.cause = LastError(r.calls, N)
            /\ (r.pc = "done" /\ r.result.kind = "err" /\ r.ctx = "live"
                   /\ r.result.err # "AdmissionDenied")
                  => r.result = ErrResult("RetriesExhausted", LastError(r.calls, N))

\* three attempts failed, and the error returned wraps the third one's
C6_Witness ==
    \E w \in Workers :
        /\ wk[w].pc = "done" /\ wk[w].ctx = "live"
        /\ Len(wk[w].calls) = 3
        /\ wk[w].result = ErrResult("RetriesExhausted", AttemptError(2))

WaitsDouble(r) ==
    \A i \in 1..Len(r.waits) : r.waits[i] = config.BackoffBase * 2^(i - 1)

Exhausted(r) == r.pc = "done" /\ r.result.err = "RetriesExhausted"

\* C7 as stated: the wait after failed attempt i lasts backoffBase * 2^i, and the
\* waits of a call that ends with retries exhausted lie between its attempts, so
\* that each wait is followed by a further attempt.
C7_WaitsLieBetweenAttempts ==
    \A w \in Workers :
        /\ WaitsDouble(wk[w])
        /\ Exhausted(wk[w]) => Len(wk[w].waits) < Len(wk[w].calls) \/ wk[w].calls = <<>>

\* C7, amended: the wait after failed attempt i lasts backoffBase * 2^i, with no
\* jitter and no cap, and a wait follows every failed attempt, the last one
\* included: a call that ends with retries exhausted has made as many waits as
\* attempts, and with maxRetries = 3 and backoffBase = 1 its waits are 1, 2 and 4,
\* the third of them after the last attempt and before the return.
C7_WaitAfterEveryFailure ==
    \A w \in Workers :
        /\ WaitsDouble(wk[w])
        /\ Exhausted(wk[w]) => Len(wk[w].waits) = Len(wk[w].calls)
        /\ (Exhausted(wk[w]) /\ config.MaxRetries = 3 /\ config.BackoffBase = 1)
              => wk[w].waits = <<1, 2, 4>> /\ Len(wk[w].calls) = 3

\* three failures with waits of 1, 2 and 4 seconds, then retries exhausted
C7_Witness ==
    \E w \in Workers :
        /\ Exhausted(wk[w]) /\ wk[w].waits = <<1, 2, 4>> /\ Len(wk[w].calls) = 3
        /\ now >= 7

\* C8: when the context is cancelled or its deadline passes while the retry loop
\* is blocked in a backoff wait, the call returns the context's error: the next
\* step of the call is that return, no further attempt or wait is made, and the
\* error is the context's, not retries exhausted.
C8_CancelEndsTheWait ==
    [][\A w \in Workers :
          /\ (wk[w].pc = "wait" /\ wk[w].sel = "none" /\ wk[w].ctx = "live"
                 /\ wk'[w].ctx # "live")
                => wk'[w].woken /\ wk'[w].pc = "wait"
          /\ (wk[w].woken /\ Leaves(w, "wait"))
                => /\ wk'[w].pc = "done"
                   /\ wk'[w].result = ErrResult(wk[w].ctx, NoError)
                   /\ wk[w].ctx # "live"
                   /\ wk'[w].calls = wk[w].calls
                   /\ wk'[w].waits = wk[w].waits]_vars

\* the context was cancelled during the second wait (2 seconds, after a first of
\* 1 second), and the call has returned its error before that wait was over
C8_Witness ==
    \E w \in Workers :
        /\ wk[w].pc = "done" /\ wk[w].woken
        /\ wk[w].result = ErrResult("Canceled", NoError)
        /\ wk[w].waits = <<1, 2>>
        /\ now < 3

\* C9: a RouteRequest for a provider id that is not registered fails with
\* "provider not found" and nothing else happens: no GenerateText call, no
\* IsAvailable call, no lookup of the fallback list.
C9_UnknownProviderIsTerminal ==
    [][/\ (rt.pc = "lookup" /\ rt'.pc # "lookup"
              /\ providers[rt.req.Provider] = NoClient)
             => /\ rt'.pc = "done"
                /\ rt'.result = RouteErr("provider not found")
       /\ (rt'.pc = "done" /\ rt'.result = RouteErr("provider not found"))
             => /\ rt'.trail = <<>>
                /\ rt'.availChecks = 0
                /\ ~rt'.fbLooked
                /\ rt'.chain = NoChain]_vars

\* a request for an unregistered provider was refused although the other provider
\* is registered and the model has a fallback list
C9_Witness ==
    /\ rt.pc = "done" /\ rt.result = RouteErr("provider not found")
    /\ providers[rt.req.Provider] = NoClient
    /\ \E p \in Providers : providers[p] # NoClient
    /\ fallbacks[rt.req.ModelName] \in Chains \ {<<>>}

\* the candidates of the fallback list the call has gone through
FallbackTrail(r) == SelectSeq(r.trail, LAMBDA e : e.stage = "fallback")

\* C10: after the primary attempt failed or was skipped, the candidates of the
\* fallback list of the request's model are gone through in list order, each
\* position once at most; the call returns the response of the first candidate
\* whose generation succeeds and goes through no candidate after it; it returns
\* "all fallbacks failed" exactly when every candidate was skipped or failed.
C10_FallbacksInListOrder ==
    (rt.fbLooked /\ rt.chain # NoChain) =>
        LET fb == FallbackTrail(rt) IN
        /\ Len(rt.trail) - Len(fb) <= 1
        /\ \A i \in 1..(Len(rt.trail) - Len(fb)) :
              rt.trail[i].stage = "primary" /\ rt.trail[i].outcome # "ok"
        /\ Len(fb) <= Len(rt.chain)
        /\ \A i \in 1..Len(fb) : fb[i].model = rt.chain[i]
        /\ \A i \in 1..(Len(fb) - 1) : fb[i].outcome # "ok"
        /\ (rt.pc = "done" /\ rt.result.kind = "ok")
              => /\ fb # <<>>
                 /\ fb[Len(fb)].outcome = "ok"
                 /\ rt.result.model = rt.chain[Len(fb)]
        /\ rt.pc = "done"
              => (rt.result = RouteErr("all fallbacks failed")
                    <=> /\ Len(fb) = Len(rt.chain)
                        /\ \A i \in 1..Len(fb) : fb[i].outcome # "ok")

\* the primary attempt failed, the first candidate failed, and the second
\* candidate's response was returned
C10_Witness ==
    /\ rt.pc = "done" /\ rt.result = RouteOk("m3")
    /\ rt.chain = <<"m2", "m3">>
    /\ Len(rt.trail) = 3
    /\ rt.trail[1].outcome = "fail" /\ rt.trail[2].outcome = "fail"

\* a request for m1, with the fallback list m2, m3, whose provider was found
\* unavailable at the primary attempt
PrimarySkipped(r) ==
    /\ r.req.ModelName = "m1"
    /\ r.chain = <<"m2", "m3">>
    /\ r.trail # <<>>
    /\ r.trail[1] = [stage |-> "primary", model |-> "m1", outcome |-> "unavailable"]

Generated(e) == e.outcome \in {"ok", "fail"}

\* C11 as stated: with the provider unavailable for the primary model m1 and the
\* fallback list m2, m3, the request makes no generate call for m1, attempts
\* generation for m2, and if that fails attempts generation for m3.
C11_FallbacksAreAttempted ==
    (PrimarySkipped(rt) /\ rt.pc = "done" /\ rt.result.kind # "fatal") =>
        LET fb == FallbackTrail(rt) IN
        /\ fb # <<>> /\ fb[1].model = "m2" /\ Generated(fb[1])
        /\ fb[1].outcome = "fail"
              => Len(fb) = 2 /\ fb[2].model = "m3" /\ Generated(fb[2])

\* what C11 holds of a call: the candidates are m2 then m3, the result is the first
\* success among them, or "all fallbacks failed"
FirstSuccessOfTwo(r) ==
    LET fb == FallbackTrail(r) IN
    /\ Len(r.trail) = 1 + Len(fb)
    /\ Len(fb) <= 2
    /\ \A i \in 1..Len(fb) : fb[i].model = r.chain[i]
    /\ (r.pc = "done" /\ r.result.kind # "fatal")
          => /\ fb # <<>>
             /\ Len(fb) = (IF fb[1].outcome = "ok" THEN 1 ELSE 2)
             /\ r.result = (IF fb[1].outcome = "ok" THEN RouteOk("m2")
                            ELSE IF fb[2].outcome = "ok" THEN RouteOk("m3")
                            ELSE RouteErr("all fallbacks failed"))

\* C11, amended: with the provider found unavailable at the primary attempt for m1
\* and the fallback list m2, m3, the request makes no generate call for m1 and goes
\* through m2 and then m3 with the same provider, asking IsAvailable again for each:
\* a candidate is generated only if the provider is available at that moment and is
\* skipped otherwise, so that a provider that stays unavailable gets no generate call
\* at all; the result is the first success, or "all fallbacks failed".
C11_FallbacksNeedTheProvider ==
    [][/\ PrimarySkipped(rt') => FirstSuccessOfTwo(rt')
       /\ (Len(rt'.trail) = Len(rt.trail) + 1 /\ \A c \in Clients : ~available[c])
             => ~Generated(rt'.trail[Len(rt'.trail)])]_vars

\* the provider stayed unavailable: m1, m2 and m3 were all skipped, and the call
\* returned "all fallbacks failed" without a generate call
C11_Witness ==
    /\ PrimarySkipped(rt) /\ rt.pc = "done"
    /\ rt.result = RouteErr("all fallbacks failed")
    /\ Len(rt.trail) = 3
    /\ \A i \in 1..3 : rt.trail[i].outcome = "unavailable"

\* the GenerateText calls of the call so far
GenerateCalls(r) == Cardinality({i \in 1..Len(r.trail) : Generated(r.trail[i])})

\* C12: fallback resolution is one level deep: a call looks up one fallback list,
\* that of the model of its request, keeps to it, and so makes at most
\* 1 + Len(list) generate calls, also when the lists configured are cyclic.
C12_OneLevelOfFallback ==
    [][/\ (rt.pc = "fblookup" /\ rt'.pc # "fblookup")
             => /\ rt'.fbLooked
                /\ rt'.chain = fallbacks[rt.req.ModelName]
                /\ rt'.req = rt.req
       /\ (rt.fbLooked /\ rt'.fbLooked)
             => rt'.chain = rt.chain /\ rt'.pc # "fblookup"
       /\ ~rt'.fbLooked => rt'.chain = NoChain
       /\ GenerateCalls(rt') <= 1 + (IF rt'.chain = NoChain THEN 0 ELSE Len(rt'.chain))
       /\ \A i \in 1..Len(rt'.trail) :
             rt'.trail[i].stage = "fallback"
                 => \E j \in 1..Len(rt'.chain) : rt'.trail[i].model = rt'.chain[j]]_vars

\* the lists are cyclic (m1 -> m2, m2 -> m1); a request for m1 tried m1 and m2, once
\* each, and returned "all fallbacks failed"
C12_Witness ==
    /\ fallbacks["m1"] = <<"m2">> /\ fallbacks["m2"] = <<"m1">>
    /\ rt.pc = "done" /\ rt.req.ModelName = "m1"
    /\ rt.result = RouteErr("all fallbacks failed")
    /\ Len(rt.trail) = 2 /\ GenerateCalls(rt) = 2

\* the calls in progress
InFlight == {w \in Workers : wk[w].pc \notin {"idle", "done"}}

\* the calls that have recorded their outcome and have not returned yet
Recorded == {w \in Workers : wk[w].pc = "store"}

\* every call made so far is the one call of a worker, and none was denied
OneCallEach ==
    /\ nreq = Cardinality({w \in Workers : wk[w].pc = "done"})
    /\ \A w \in Workers : wk[w].pc = "done" => ~Denied(wk[w])

\* C13 as stated: the metrics are updated once for each call that completes on the
\* cache-hit path or on the provider path, so that total requests always equals the
\* number of completed requests.
C13_TotalIsCompleted ==
    OneCallEach => metrics.TotalRequests = nreq

\* C13, amended: the metrics are updated exactly once for each call that returns a
\* response, by 1 request (and 1 cache hit on the cache-hit path only), and not at
\* all for a call that returns an error, whether admission denied, retries exhausted
\* or the context's: total requests equals the number of calls that have returned a
\* response plus the calls that have recorded their outcome and not returned yet,
\* and cache hits never exceeds total requests.
C13_OnceForEachResponse ==
    [][/\ metrics'.TotalRequests = succeeded' + Cardinality(Recorded')
       /\ metrics'.CacheHits <= metrics'.TotalRequests
       /\ \A w \in Workers :
             /\ Leaves(w, "hit")
                   => /\ metrics'.TotalRequests = metrics.TotalRequests + 1
                      /\ metrics'.CacheHits = metrics.CacheHits + 1
                      /\ succeeded' = succeeded + 1
             /\ Leaves(w, "record")
                   => /\ metrics'.TotalRequests = metrics.TotalRequests + 1
                      /\ metrics'.CacheHits = metrics.CacheHits
             /\ (wk[w].pc # "done" /\ wk'[w].pc = "done" /\ wk'[w].result.kind = "err")
                   => metrics' = metrics /\ succeeded' = succeeded
       /\ metrics' # metrics
             => \E w \in Workers : Leaves(w, "hit") \/ Leaves(w, "record")]_vars

\* one call returned a response from a provider, the other's retries were exhausted:
\* two calls have completed, one is counted
C13_Witness ==
    /\ Quiescent /\ nreq = 2 /\ succeeded = 1
    /\ metrics.TotalRequests = 1
    /\ \E w \in Workers :
          /\ wk[w].pc = "done" /\ wk[w].result.err = "RetriesExhausted"
          /\ Len(wk[w].calls) = 2

C15_CostNeverDecreases ==
    [][/\ metrics'.EstimatedCost >= metrics.EstimatedCost
       /\ metrics'.EstimatedCost # metrics.EstimatedCost
             => \E w \in Workers :
                   /\ Leaves(w, "hit") \/ Leaves(w, "record")
                   /\ metrics'.EstimatedCost =
                          metrics.EstimatedCost + wk[w].response.Cost]_vars

\* the cost grew twice, once by a provider response and once by a cache hit
C15_Witness ==
    /\ metrics.EstimatedCost = 2
    /\ metrics.TotalRequests = 2 /\ metrics.CacheHits = 1

\* the call of RouteRequest reads the provider mapping or the fallback mapping
ReadsMapping ==
    /\ rt.pc \in {"lookup", "fblookup", "fallback"}
    /\ rt'.pc # rt.pc \/ rt'.trail # rt.trail

\* C16: every lookup of the provider mapping and of the fallback mapping made
\* during RouteRequest, the provider lookup for each fallback candidate included,
\* holds the shared lock, so that no read of a mapping is made while a registration
\* holds the exclusive lock.
C16_LookupsHoldTheLock ==
    [][ReadsMapping => regw = NoWrite]_vars

\* the provider lookup for a fallback candidate ran into a registration, and the
\* runtime ended the program ("concurrent map read and map write")
C16_Witness ==
    /\ rt.pc = "done" /\ rt.result.kind = "fatal"
    /\ regw # NoWrite

\* C17: once the context of a RouteRequest call has concluded, the call starts no
\* generate call for a remaining fallback candidate, and what it returns is the
\* context's error, not a routing error.
C17_CancelStopsFallbacks ==
    [][(rt.ctx # "live" /\ rt.pc = "fallback")
          => /\ GenerateCalls(rt') = GenerateCalls(rt)
             /\ rt'.pc = "done" => rt'.result = RouteErr(rt.ctx)]_vars

\* C18: routing errors and admission errors are never retried: after an attempt
\* that failed with a routing error the retry loop makes no further attempt and
\* returns that error, and a request that was denied admission made no attempt.
C18_RoutingErrorsAreNotRetried ==
    \A w \in Workers :
        /\ \A i \in 1..Len(wk[w].calls) :
              wk[w].calls[i][1] \in RoutingErrors
                  => /\ i = Len(wk[w].calls)
                     /\ (wk[w].pc = "done" /\ wk[w].ctx = "live")
                           => wk[w].result.kind = "err" /\ wk[w].result.err = wk[w].calls[i][1]
        /\ Denied(wk[w]) => wk[w].calls = <<>>

\* the first attempt failed with "provider not found", and a second attempt was made
C18_Witness ==
    \E w \in Workers :
        /\ Len(wk[w].calls) = 2
        /\ wk[w].calls[1] = Failure("provider not found", 0)
        /\ wk[w].pc = "done" /\ wk[w].result.kind = "ok"

CtxErrors == CtxStates \ {"live"}

\* C19: the context preempts only the backoff wait. An attempt is never skipped or
\* aborted because of the context: the first attempt is made even when the context
\* has concluded on entry, an attempt that has started runs to its own result, and
\* the context's error is returned only from a wait, after an attempt that failed;
\* a wait with a backoff that begins with the context concluded returns it.
C19_OnlyTheWaitIsPreempted ==
    [][\A w \in Workers :
          /\ (Leaves(w, "admit") /\ ~Denied(wk'[w]) /\ ~config.CacheEnabled
                 /\ config.MaxRetries >= 1)
                => wk'[w].pc = "attempt" /\ wk'[w].attempt = 0
          /\ (wk[w].pc = "attempt" /\ wk'[w].ctx # wk[w].ctx)
                => wk'[w].pc = "attempt" /\ wk'[w].calls = wk[w].calls
          /\ Leaves(w, "attempt")
                => /\ wk'[w].pc \in {"record", "wait"}
                   /\ Len(wk'[w].calls) = Len(wk[w].calls) + 1
                   /\ wk'[w].pc = "record" <=> wk'[w].calls[Len(wk'[w].calls)] = NoError
          /\ (wk[w].pc # "done" /\ wk'[w].pc = "done" /\ wk'[w].result.err \in CtxErrors)
                => /\ wk[w].pc = "wait"
                   /\ wk[w].calls # <<>>
                   /\ wk[w].calls[Len(wk[w].calls)] # NoError
          /\ (wk[w].pc = "record" /\ wk'[w].pc = "done")
                => wk'[w].result.kind = "ok"
          /\ (Leaves(w, "attempt") /\ wk[w].ctx # "live" /\ wk'[w].pc = "wait"
                 /\ wk'[w].waits[Len(wk'[w].waits)] > 0)
                => wk'[w].sel = "ctx"]_vars

\* the context had concluded before the wait began; the first attempt was made all
\* the same, failed, and the context's error was returned at the wait that followed
C19_Witness ==
    \E w \in Workers :
        /\ wk[w].pc = "done" /\ wk[w].ctx \in CtxErrors /\ ~wk[w].woken
        /\ wk[w].result = ErrResult(wk[w].ctx, NoError)
        /\ wk[w].calls = <<AttemptError(0)>>
        /\ wk[w].waits = <<1>>
        /\ now = 0

RECURSIVE SumCost(_)
SumCost(ws) ==
    IF ws = {} THEN 0
    ELSE LET w == CHOOSE v \in ws : TRUE
         IN  wk[w].response.Cost + SumCost(ws \ {w})

\* the cost incurred so far: the cost recorded in the metrics, and the cost of the
\* provider responses that calls in progress have received and not recorded yet
Incurred ==
    metrics.EstimatedCost + SumCost({w \in Workers : wk[w].pc = "record"})

\* C20: the admission check reflects the cost incurred by the completed requests
\* and by the requests in progress: no request passes the admission check while
\* the cost incurred so far is at or above the ceiling.
C20_AdmissionSeesInFlightCost ==
    [][\A w \in Workers :
          (Leaves(w, "admit") /\ ~Denied(wk'[w])) => Incurred < config.CostLimit]_vars

\* two requests went to a provider, each at the cost of the whole ceiling, and both
\* were admitted: the cost recorded is twice the ceiling
C20_Witness ==
    /\ Quiescent /\ metrics.CacheHits = 0 /\ metrics.TotalRequests = 2
    /\ metrics.EstimatedCost = 2 * config.CostLimit
    /\ \A w \in Workers : wk[w].pc = "done" /\ wk[w].result.resp.Cost = config.CostLimit

====
